---- MODULE Spec2Model ----
(***************************************************************************)
(* Model of src/integration_hub.py: class IntegrationHub.                  *)
(*                                                                         *)
(* The hub owns three Communicators (discovery, assessment,                *)
(* implementation) and four phase methods.  A phase method runs on a       *)
(* worker (a thread or a bus-delivery callback); it may be suspended at    *)
(* every call into a collaborator (ping, compatibility check, connector    *)
(* generation, test, rollback, metrics, analysis, publish), so each such   *)
(* call is one step of the worker.  The class takes no lock anywhere.      *)
(*                                                                         *)
(* The bodies of _check_compatibility, _generate_connector,                *)
(* _test_integration, _rollback_integration, _gather_metrics and           *)
(* _analyze_metrics are placeholders wrapped in try/except/raise; the      *)
(* model gives each the outcomes its signature and its except clause       *)
(* allow (a value of the declared return type, or an exception).           *)
(*                                                                         *)
(* The source writes `self communicators` on lines 8, 39, 69 and 100; the  *)
(* model reads it as `self.communicators`.  The file ends inside the       *)
(* except clause of _analyze_metrics (line 175); the model completes it as *)
(* the other except clauses of the class read: log the error, re-raise.    *)
(*                                                                         *)
(* The class has one attribute, communicators: it keeps no per-request     *)
(* record, phase or history, so `records` starts empty and no action       *)
(* changes it.                                                             *)
(***************************************************************************)
EXTENDS Integers, Sequences, FiniteSets

VARIABLES
    hub,            \* "new" | "ready" | "failed": outcome of __init__
    setup,          \* per exchange: how many of connect/create_exchange/setup_queues ran
    communicators,  \* per exchange: the messages published through that Communicator
    records,        \* per-request state kept by the hub (the class keeps none)
    frame,          \* per worker: the phase call it runs and that call's locals
    calls           \* number of phase calls started so far

vars == <<hub, setup, communicators, records, frame, calls>>

\* ---------------------------------------------------------------- bounds
\* Phase calls started in one behaviour.
MaxCalls == 3

\* ---------------------------------------------------------------- values
Workers == {"w1", "w2"}

\* self.communicators, in insertion order (lines 8-12).
Exchanges == <<"discovery", "assessment", "implementation">>

ExchangeSet == {Exchanges[k] : k \in 1..Len(Exchanges)}

\* connect, create_exchange, setup_queues (lines 23-25).
SetupCalls == <<"connect", "create_exchange", "setup_queues">>

\* Python None / an unset local.
None == [none |-> TRUE]

\* A Python str value.
Str(s) == [str |-> s]

\* services: Dict[str, str], as its items() in insertion order.
ServiceItems == {<<"svc-a", "http://a.test">>, <<"svc-b", "http://b.test">>}

ServiceDicts ==
    {<<>>} \cup {<<x>> : x \in ServiceItems}
           \cup {<<x, y>> : <<x, y>> \in {p \in ServiceItems \X ServiceItems : p[1] # p[2]}}

Services(items) == [items |-> items]

\* integration_request: Dict[str, Any].
RequestIds == {"r1", "r2"}

Request(id) == [id |-> id, source |-> "svc-a", target |-> "svc-b"]

Requests == {Request(id) : id \in RequestIds}

\* _gather_metrics results: a metrics dict, or the empty dict.
EmptyDict == [keys |-> {}]

Metrics(status) == [status |-> status, latency |-> "0.1"]

MetricsValues == {EmptyDict, Metrics("ok"), Metrics("degraded")}

\* What a collaborator call can do.
PingOutcomes == {"200", "503", "raise"}

BoolOutcomes == {"true", "false", "raise"}

CallOutcomes == {"ok", "raise"}

\* A message handed to Communicator.publish.
Message(exchange, routing_key, body) ==
    [exchange |-> exchange, routing_key |-> routing_key, body |-> body]

Log(level, msg) == [level |-> level, msg |-> msg]

\* ---------------------------------------------------------------- frames
Frame0 ==
    [op |-> "idle", pc |-> "idle", outcome |-> "none", arg |-> None,
     i |-> 0, responses |-> <<>>, request |-> None, compatible |-> "none",
     integration_code |-> "none", tested |-> "none", rollbacks |-> 0,
     rollback |-> "none", metrics |-> None, healthy |-> "none",
     publish |-> "none", sent |-> <<>>, log |-> <<>>, invoked |-> <<>>]

Free(w) == frame[w].pc \in {"idle", "done"}

CanCall(w) == hub = "ready" /\ Free(w) /\ calls < MaxCalls

\* Mutant of Raise: the except clause logs the failure and does not re-raise.
RaiseSwallowed(f, msgs) ==
    [f EXCEPT !.pc = "done", !.outcome = "returned",
              !.log = @ \o [k \in 1..Len(msgs) |-> [level |-> "error", msg |-> msgs[k]]]]

\* Mutant of Raise: the except clause re-raises without logging.
RaiseUnlogged(f, msgs) == [f EXCEPT !.pc = "done", !.outcome = "raised"]

\* The except/raise clause of a phase method: log the failure, re-raise.
Raise(f, msgs) ==
    [f EXCEPT !.pc = "done", !.outcome = "raised",
              !.log = @ \o [k \in 1..Len(msgs) |-> Log("error", msgs[k])]]

Return(f) == [f EXCEPT !.pc = "done", !.outcome = "returned"]

Logged(f, level, msg) == [f EXCEPT !.log = Append(@, Log(level, msg))]

\* A collaborator was called from the running phase method and ended with result.
Invoked(f, call, result) ==
    [f EXCEPT !.invoked = Append(@, [call |-> call, result |-> result])]

\* Communicator.publish returned: the message is on the exchange.
Published(f, msg) ==
    [Invoked(f, "publish", "ok") EXCEPT !.publish = "ok", !.sent = Append(@, msg)]

\* Communicator.publish raised.
Unpublished(f) == [Invoked(f, "publish", "raise") EXCEPT !.publish = "raise"]

\* ---------------------------------------------------------------- records
\* The phase the hub holds for a key (a request id or a service name).
Phase(key) == IF key \in DOMAIN records THEN records[key].phase ELSE "none"

\* The transitions and failures the hub has recorded for a key.
History(key) == IF key \in DOMAIN records THEN records[key].history ELSE <<>>

\* ---------------------------------------------------------------- __init__
Init ==
    /\ hub = "new"
    /\ setup = [e \in ExchangeSet |-> 0]
    /\ communicators = [e \in ExchangeSet |-> <<>>]
    /\ records = <<>>
    /\ frame = [w \in Workers |-> Frame0]
    /\ calls = 0

\* Setup steps completed on exchange number k when the n-th setup call raises
\* (n = 0: none raises).
StepsDone(k, n) ==
    LET before == (k - 1) * Len(SetupCalls)
        total  == IF n = 0 THEN Len(Exchanges) * Len(SetupCalls) ELSE n - 1
    IN  IF total <= before THEN 0
        ELSE IF total - before >= Len(SetupCalls) THEN Len(SetupCalls)
        ELSE total - before

\* Mutant of _setup_rabbitmq: the except clause logs the failure and does not
\* re-raise, so __init__ returns a hub whatever happened.
_setup_rabbitmq_swallows ==
    /\ hub = "new"
    /\ \E n \in 0..(Len(Exchanges) * Len(SetupCalls)) :
        /\ setup' = [e \in ExchangeSet |->
                        StepsDone(CHOOSE k \in 1..Len(Exchanges) : Exchanges[k] = e, n)]
        /\ hub' = "ready"
    /\ UNCHANGED <<communicators, records, frame, calls>>

\* __init__ and _setup_rabbitmq: connect, create_exchange and setup_queues on each
\* communicator in turn; the first exception is logged and re-raised.
_setup_rabbitmq ==
    /\ hub = "new"
    /\ \E n \in 0..(Len(Exchanges) * Len(SetupCalls)) :
        /\ setup' = [e \in ExchangeSet |->
                        StepsDone(CHOOSE k \in 1..Len(Exchanges) : Exchanges[k] = e, n)]
        /\ hub' = IF n = 0 THEN "ready" ELSE "failed"
    /\ UNCHANGED <<communicators, records, frame, calls>>

\* ---------------------------------------------------------------- discover_services
\* Mutant of Available: every response that came back counts as available.
AvailableAnyResponse(response) == response # "raise"

\* Line 37: response.status_code == 200.
Available(response) == response = "200"

\* Mutant of DiscoverNext: the method returns after its first item.
DiscoverNextReturnsEarly(f) == Return(f)

\* The for loop of line 33: the next item, or the end of the method.
DiscoverNext(f) ==
    IF f.i >= Len(f.arg.items)
    THEN Return(f)
    ELSE [f EXCEPT !.i = @ + 1, !.pc = "ping"]

DiscoveryMessage(service_name) ==
    Message("discovery", "available_services", [service |-> service_name])

call_discover_services(w) ==
    /\ CanCall(w)
    /\ \E services \in ServiceDicts :
         frame' = [frame EXCEPT ![w] =
                      DiscoverNext([Frame0 EXCEPT !.op = "discover_services",
                                                  !.arg = Services(services)])]
    /\ calls' = calls + 1
    /\ UNCHANGED <<hub, setup, communicators, records>>

\* Mutant of _ping_service: a raising probe is taken for an unreachable service
\* and the loop goes on.
_ping_service_error_is_unreachable(w) ==
    /\ frame[w].pc = "ping"
    /\ \E r \in PingOutcomes :
         LET f == frame[w]
             g == [Invoked(f, "_ping_service", r) EXCEPT !.responses = Append(@, r)]
         IN  frame' = [frame EXCEPT ![w] =
                 IF r = "200"
                 THEN [Logged(g, "info", "Service is available.") EXCEPT !.pc = "discover_publish"]
                 ELSE DiscoverNext(Logged(g, "warning", "Service is not available."))]
    /\ UNCHANGED <<hub, setup, communicators, records, calls>>

\* Lines 35-45 and 51-59: requests.get on the endpoint of item i.
_ping_service(w) ==
    /\ frame[w].pc = "ping"
    /\ \E r \in PingOutcomes :
         LET f == frame[w]
             service_name == f.arg.items[f.i][1]
             g == [Invoked(f, "_ping_service", r) EXCEPT !.responses = Append(@, r)]
         IN  frame' = [frame EXCEPT ![w] =
                 IF r = "raise"
                 THEN Raise(g, <<"Failed to ping", "Discovery failed">>)
                 ELSE IF Available(r)
                 THEN [Logged(g, "info", "Service is available.") EXCEPT !.pc = "discover_publish"]
                 ELSE DiscoverNext(Logged(g, "warning", "Service is not available."))]
    /\ UNCHANGED <<hub, setup, communicators, records, calls>>

\* Mutant of discover_publish: a failed publish is logged inside the loop, which
\* goes on to the next service.
discover_publish_continues(w) ==
    /\ frame[w].pc = "discover_publish"
    /\ LET f == frame[w]
           msg == DiscoveryMessage(f.arg.items[f.i][1])
       IN  \/ /\ communicators' = [communicators EXCEPT !["discovery"] = Append(@, msg)]
              /\ frame' = [frame EXCEPT ![w] = DiscoverNext(Published(f, msg))]
           \/ /\ frame' = [frame EXCEPT ![w] =
                              DiscoverNext(Logged(Unpublished(f), "error", "Discovery failed"))]
              /\ UNCHANGED communicators
    /\ UNCHANGED <<hub, setup, records, calls>>

\* Lines 39-43: publish on the discovery communicator.
discover_publish(w) ==
    /\ frame[w].pc = "discover_publish"
    /\ LET f == frame[w]
           msg == DiscoveryMessage(f.arg.items[f.i][1])
       IN  \/ /\ communicators' = [communicators EXCEPT !["discovery"] = Append(@, msg)]
              /\ frame' = [frame EXCEPT ![w] = DiscoverNext(Published(f, msg))]
           \/ /\ frame' = [frame EXCEPT ![w] = Raise(Unpublished(f), <<"Discovery failed">>)]
              /\ UNCHANGED communicators
    /\ UNCHANGED <<hub, setup, records, calls>>

\* ---------------------------------------------------------------- assess_integration
\* Mutant of AssessmentMessage: the routing key of discover_services is reused.
AssessmentMessageWrongKey(request) ==
    Message("assessment", "available_services", request)

AssessmentMessage(request) ==
    Message("assessment", "feasible_integrations", request)

\* The except clauses a failure inside assess_integration passes through: its own
\* (line 78) and, when monitor_integration made the call, that one's too (line 159).
AssessFailed(f) ==
    IF f.op = "monitor_integration"
    THEN <<"Assessment failed", "Monitoring failed">>
    ELSE <<"Assessment failed">>

call_assess_integration(w) ==
    /\ CanCall(w)
    /\ \E request \in Requests :
         frame' = [frame EXCEPT ![w] =
                      [Frame0 EXCEPT !.op = "assess_integration", !.arg = request,
                                     !.request = request, !.pc = "check"]]
    /\ calls' = calls + 1
    /\ UNCHANGED <<hub, setup, communicators, records>>

\* Lines 65-75 and 81-88.
_check_compatibility(w) ==
    /\ frame[w].pc = "check"
    /\ \E r \in BoolOutcomes :
         LET g == [Invoked(frame[w], "_check_compatibility", r) EXCEPT !.compatible = r]
         IN  frame' = [frame EXCEPT ![w] =
                 IF r = "raise"
                 THEN Raise(g, <<"Compatibility check failed">> \o AssessFailed(g))
                 ELSE IF r = "true"
                 THEN [Logged(g, "info", "Integration is feasible.") EXCEPT !.pc = "assess_publish"]
                 ELSE Return(Logged(g, "warning", "Integration not feasible due to compatibility issues."))]
    /\ UNCHANGED <<hub, setup, communicators, records, calls>>

\* Lines 69-73: publish on the assessment communicator.
assess_publish(w) ==
    /\ frame[w].pc = "assess_publish"
    /\ LET f == frame[w]
           msg == AssessmentMessage(f.request)
       IN  \/ /\ communicators' = [communicators EXCEPT !["assessment"] = Append(@, msg)]
              /\ frame' = [frame EXCEPT ![w] = Return(Published(f, msg))]
           \/ /\ frame' = [frame EXCEPT ![w] = Raise(Unpublished(f), AssessFailed(f))]
              /\ UNCHANGED communicators
    /\ UNCHANGED <<hub, setup, records, calls>>

\* ---------------------------------------------------------------- implement_integration
SuccessMessage(request) ==
    Message("implementation", "successful_integrations", request)

\* Mutant of AfterTest: the test result is ignored, success is always published.
AfterTestAlwaysPublish(tested) == "implement_publish"

\* Mutant of AfterTest: the branches of the if are swapped.
AfterTestSwapped(tested) == IF tested = "true" THEN "rollback" ELSE "implement_publish"

\* Line 97: if self._test_integration(integration_code).
AfterTest(tested) == IF tested = "true" THEN "implement_publish" ELSE "rollback"

call_implement_integration(w) ==
    /\ CanCall(w)
    /\ \E request \in Requests :
         frame' = [frame EXCEPT ![w] =
                      [Frame0 EXCEPT !.op = "implement_integration", !.arg = request,
                                     !.request = request, !.pc = "generate"]]
    /\ calls' = calls + 1
    /\ UNCHANGED <<hub, setup, communicators, records>>

\* Lines 94 and 114-121.
_generate_connector(w) ==
    /\ frame[w].pc = "generate"
    /\ \E r \in CallOutcomes :
         LET g == [Invoked(frame[w], "_generate_connector", r) EXCEPT !.integration_code = r]
         IN  frame' = [frame EXCEPT ![w] =
                 IF r = "raise"
                 THEN Raise(g, <<"Connector generation failed", "Implementation failed">>)
                 ELSE [g EXCEPT !.pc = "test"]]
    /\ UNCHANGED <<hub, setup, communicators, records, calls>>

\* Lines 97-98, 105-106 and 123-130.
_test_integration(w) ==
    /\ frame[w].pc = "test"
    /\ \E r \in BoolOutcomes :
         LET g == [Invoked(frame[w], "_test_integration", r) EXCEPT !.tested = r]
         IN  frame' = [frame EXCEPT ![w] =
                 IF r = "raise"
                 THEN Raise(g, <<"Integration test failed", "Implementation failed">>)
                 ELSE [Logged(g, IF r = "true" THEN "info" ELSE "error",
                                 IF r = "true" THEN "Integration implemented successfully."
                                               ELSE "Integration failed during testing.")
                          EXCEPT !.pc = AfterTest(r)]]
    /\ UNCHANGED <<hub, setup, communicators, records, calls>>

\* Mutant of implement_publish: the request to publish is kept in a place all
\* running implement calls share, so a call may publish another call's request.
implement_publish_shared(w) ==
    /\ frame[w].pc = "implement_publish"
    /\ \E v \in Workers :
         /\ frame[v].op = "implement_integration"
         /\ LET f == frame[w]
                msg == SuccessMessage(frame[v].request)
            IN  \/ /\ communicators' = [communicators EXCEPT !["implementation"] = Append(@, msg)]
                   /\ frame' = [frame EXCEPT ![w] = Return(Published(f, msg))]
                \/ /\ frame' = [frame EXCEPT ![w] = Raise(Unpublished(f), <<"Implementation failed">>)]
                   /\ UNCHANGED communicators
    /\ UNCHANGED <<hub, setup, records, calls>>

\* Lines 100-104: publish on the implementation communicator.
implement_publish(w) ==
    /\ frame[w].pc = "implement_publish"
    /\ LET f == frame[w]
           msg == SuccessMessage(f.request)
       IN  \/ /\ communicators' = [communicators EXCEPT !["implementation"] = Append(@, msg)]
              /\ frame' = [frame EXCEPT ![w] = Return(Published(f, msg))]
           \/ /\ frame' = [frame EXCEPT ![w] = Raise(Unpublished(f), <<"Implementation failed">>)]
              /\ UNCHANGED communicators
    /\ UNCHANGED <<hub, setup, records, calls>>

\* Mutant of _rollback_integration: a failing rollback is logged and not re-raised.
_rollback_integration_best_effort(w) ==
    /\ frame[w].pc = "rollback"
    /\ \E r \in CallOutcomes :
         LET g == [Invoked(frame[w], "_rollback_integration", r)
                       EXCEPT !.rollbacks = @ + 1, !.rollback = r]
         IN  frame' = [frame EXCEPT ![w] =
                 IF r = "raise"
                 THEN Return(Logged(g, "error", "Rollback failed"))
                 ELSE Return(Logged(g, "info", "Rolled back integration."))]
    /\ UNCHANGED <<hub, setup, communicators, records, calls>>

\* Lines 108 and 132-139.
_rollback_integration(w) ==
    /\ frame[w].pc = "rollback"
    /\ \E r \in CallOutcomes :
         LET g == [Invoked(frame[w], "_rollback_integration", r)
                       EXCEPT !.rollbacks = @ + 1, !.rollback = r]
         IN  frame' = [frame EXCEPT ![w] =
                 IF r = "raise"
                 THEN Raise(g, <<"Rollback failed", "Implementation failed">>)
                 ELSE Return(Logged(g, "info", "Rolled back integration."))]
    /\ UNCHANGED <<hub, setup, communicators, records, calls>>

\* ---------------------------------------------------------------- monitor_integration
\* Line 156: the argument monitor_integration hands to assess_integration.
ReassessRequest(integration_id) == integration_id

call_monitor_integration(w) ==
    /\ CanCall(w)
    /\ \E id \in RequestIds :
         frame' = [frame EXCEPT ![w] =
                      [Frame0 EXCEPT !.op = "monitor_integration", !.arg = Str(id),
                                     !.pc = "gather"]]
    /\ calls' = calls + 1
    /\ UNCHANGED <<hub, setup, communicators, records>>

\* Mutant of _gather_metrics: the `return` of line 149 is missing, so empty
\* metrics go on to the analysis.
_gather_metrics_no_return(w) ==
    /\ frame[w].pc = "gather"
    /\ \/ \E m \in MetricsValues :
            LET g == [Invoked(frame[w], "_gather_metrics", "ok") EXCEPT !.metrics = m]
            IN  frame' = [frame EXCEPT ![w] =
                    IF m = EmptyDict
                    THEN [Logged(g, "warning", "No data available for monitoring.")
                             EXCEPT !.pc = "analyze"]
                    ELSE [g EXCEPT !.pc = "analyze"]]
       \/ frame' = [frame EXCEPT ![w] =
                       Raise(Invoked(@, "_gather_metrics", "raise"),
                             <<"Metrics gathering failed", "Monitoring failed">>)]
    /\ UNCHANGED <<hub, setup, communicators, records, calls>>

\* Lines 145-149 and 162-169.
_gather_metrics(w) ==
    /\ frame[w].pc = "gather"
    /\ \/ \E m \in MetricsValues :
            LET g == [Invoked(frame[w], "_gather_metrics", "ok") EXCEPT !.metrics = m]
            IN  frame' = [frame EXCEPT ![w] =
                    IF m = EmptyDict
                    THEN Return(Logged(g, "warning", "No data available for monitoring."))
                    ELSE [g EXCEPT !.pc = "analyze"]]
       \/ frame' = [frame EXCEPT ![w] =
                       Raise(Invoked(@, "_gather_metrics", "raise"),
                             <<"Metrics gathering failed", "Monitoring failed">>)]
    /\ UNCHANGED <<hub, setup, communicators, records, calls>>

\* Lines 152-156 and 171-175.
_analyze_metrics(w) ==
    /\ frame[w].pc = "analyze"
    /\ \E r \in BoolOutcomes :
         LET g == [Invoked(frame[w], "_analyze_metrics", r) EXCEPT !.healthy = r]
         IN  frame' = [frame EXCEPT ![w] =
                 IF r = "raise"
                 THEN Raise(g, <<"Metrics analysis failed", "Monitoring failed">>)
                 ELSE IF r = "true"
                 THEN Return(Logged(g, "info", "Integration is performing well."))
                 ELSE [Logged(g, "warning", "Integration performance issues detected.")
                          EXCEPT !.request = ReassessRequest(g.arg), !.pc = "check"]]
    /\ UNCHANGED <<hub, setup, communicators, records, calls>>

\* ---------------------------------------------------------------- specification
Next ==
    \/ _setup_rabbitmq
    \/ \E w \in Workers :
        \/ call_discover_services(w)
        \/ _ping_service(w)
        \/ discover_publish(w)
        \/ call_assess_integration(w)
        \/ _check_compatibility(w)
        \/ assess_publish(w)
        \/ call_implement_integration(w)
        \/ _generate_connector(w)
        \/ _test_integration(w)
        \/ implement_publish(w)
        \/ _rollback_integration(w)
        \/ call_monitor_integration(w)
        \/ _gather_metrics(w)
        \/ _analyze_metrics(w)

Spec == Init /\ [][Next]_vars

\* ================================================================ claims
Implementing(w) == frame[w].op = "implement_integration"

Discovering(w) == frame[w].op = "discover_services"

Assessing(w) == frame[w].op = "assess_integration"

Monitoring(w) == frame[w].op = "monitor_integration"

Ended(w) == frame[w].pc = "done"

\* The messages of a sequence that satisfy nothing but being on it, as a set.
Range(seq) == {seq[k] : k \in 1..Len(seq)}

\* C1: a success event is appended to the implementation exchange, and a record
\* becomes Implemented, only by an implement call whose connector generation
\* succeeded and whose test returned true.
C1_SuccessOnlyAfterBuildAndTest ==
    [][ /\ (communicators'["implementation"] # communicators["implementation"]
            => \E w \in Workers :
                 /\ frame'[w] # frame[w]
                 /\ Implementing(w)
                 /\ frame[w].integration_code = "ok"
                 /\ frame[w].tested = "true"
                 /\ communicators'["implementation"] =
                        Append(communicators["implementation"],
                               [exchange |-> "implementation",
                                routing_key |-> "successful_integrations",
                                body |-> frame[w].arg]))
        /\ \A id \in RequestIds :
             (Phase(id)' = "Implemented" /\ Phase(id) # "Implemented")
                => \E w \in Workers :
                     /\ Implementing(w) /\ frame[w].arg.id = id
                     /\ frame[w].integration_code = "ok" /\ frame[w].tested = "true"
      ]_vars

\* An implement call has returned after publishing its success event.
C1_Witness ==
    \E w \in Workers :
        /\ Implementing(w) /\ frame[w].outcome = "returned"
        /\ frame[w].integration_code = "ok" /\ frame[w].tested = "true"
        /\ Len(frame[w].sent) = 1
        /\ frame[w].sent[1] \in Range(communicators["implementation"])

\* C2: in every implement call rollback is invoked only when generation succeeded
\* and the test returned false, at most once, and a call that has ended invoked it
\* exactly when generation succeeded and the test returned false; never after a
\* failed generation, a raising test, a true test or a failed success publish.
C2_RollbackIffTestFalse ==
    \A w \in Workers : Implementing(w) =>
        LET f == frame[w]
            testFalse == f.integration_code = "ok" /\ f.tested = "false"
        IN  /\ f.rollbacks \in {0, 1}
            /\ f.rollbacks = 1 => testFalse
            /\ Ended(w) => (f.rollbacks = 1 <=> testFalse)
            /\ f.integration_code = "raise" => f.rollbacks = 0
            /\ f.tested \in {"true", "raise"} => f.rollbacks = 0
            /\ f.publish = "raise" => f.rollbacks = 0

\* An implement call whose test returned false has ended with rollback invoked.
C2_Witness ==
    \E w \in Workers :
        /\ Implementing(w) /\ Ended(w)
        /\ frame[w].tested = "false" /\ frame[w].rollbacks = 1

\* C3: once a success event for a request is on the implementation exchange,
\* running the implement handler again for that request (here: on the only worker
\* that has run anything, so strictly after the first run) publishes nothing.
C3_RedeliveryPublishesNothing ==
    [][ \A w \in Workers :
          ( /\ \A v \in Workers \ {w} : frame[v] = Frame0
            /\ Implementing(w)
            /\ \E k \in 1..Len(communicators["implementation"]) :
                 communicators["implementation"][k].body = frame[w].arg )
          => /\ communicators' = communicators
             /\ records' = records
      ]_vars

\* The published discovery events a discover call owes for the responses it has.
RECURSIVE ReachableEvents(_, _)
ReachableEvents(items, responses) ==
    IF responses = <<>> THEN <<>>
    ELSE LET n == Len(responses)
             rest == ReachableEvents(items, SubSeq(responses, 1, n - 1))
         IN  IF responses[n] = "200"
             THEN Append(rest, [exchange |-> "discovery",
                                routing_key |-> "available_services",
                                body |-> [service |-> items[n][1]]])
             ELSE rest

\* C4: a discover call publishes no discovery event for a service whose probe
\* came back non-200 or raised, and no record exists for that service.
C4_UnreachableNotPublished ==
    \A w \in Workers : Discovering(w) =>
        \A k \in 1..Len(frame[w].responses) :
            frame[w].responses[k] # "200" =>
                /\ \A m \in Range(frame[w].sent) :
                       m.body.service # frame[w].arg.items[k][1]
                /\ Phase(frame[w].arg.items[k][1]) = "none"

\* A discover call over two services has returned: one was unreachable, the
\* other reachable and published.
C4_Witness ==
    \E w \in Workers :
        /\ Discovering(w) /\ frame[w].outcome = "returned"
        /\ \E k \in 1..Len(frame[w].responses) : frame[w].responses[k] = "503"
        /\ Len(frame[w].sent) = 1

\* C5 as stated: whenever a discover call has ended, every service whose probe
\* succeeded has exactly one discovery event with its name.
C5_Original ==
    \A w \in Workers : (Discovering(w) /\ Ended(w)) =>
        frame[w].sent = ReachableEvents(frame[w].arg.items, frame[w].responses)

\* C5 amended: a discover call that returns without raising has probed every
\* service of its input and has published exactly one discovery event, carrying
\* the service's name, for each service whose probe came back 200, in input
\* order, and none else.
C5_ReturnedPublishesEachReachableOnce ==
    \A w \in Workers : (Discovering(w) /\ frame[w].outcome = "returned") =>
        /\ Len(frame[w].responses) = Len(frame[w].arg.items)
        /\ frame[w].sent = ReachableEvents(frame[w].arg.items, frame[w].responses)
        /\ Len(frame[w].sent) =
              Cardinality({k \in 1..Len(frame[w].responses) : frame[w].responses[k] = "200"})

\* A discover call over two reachable services has returned with both published.
C5_Witness ==
    \E w \in Workers :
        /\ Discovering(w) /\ frame[w].outcome = "returned"
        /\ frame[w].responses = <<"200", "200">>
        /\ Len(frame[w].sent) = 2
        /\ Len(communicators["discovery"]) >= 2

\* C6 as stated: when the analyzer reports unhealthy, monitor re-invokes assess with
\* the original IntegrationRequest of that id, and every assessment event the call
\* publishes carries that request (and so its correlationId).
C6_ReassessWithOriginalRequest ==
    \A w \in Workers : (Monitoring(w) /\ frame[w].healthy = "false") =>
        /\ frame[w].request = Request(frame[w].arg.str)
        /\ \A m \in Range(frame[w].sent) :
              m.body = Request(frame[w].arg.str) /\ m.body.id = frame[w].arg.str

C9_ExclusiveTransition ==
    \A w, v \in Workers :
        ( /\ w # v
          /\ Implementing(w) /\ Implementing(v)
          /\ frame[w].arg = frame[v].arg )
        => ~(frame[w].pc = "implement_publish" /\ frame[v].pc = "implement_publish")

\* The record a phase call is about: the request's id, the integration id, or
\* the service being probed.
CallKey(f) ==
    IF f.op = "discover_services" THEN f.arg.items[f.i][1]
    ELSE IF f.op = "monitor_integration" THEN f.arg.str
    ELSE f.arg.id

Times(f, call) == Cardinality({k \in 1..Len(f.invoked) : f.invoked[k].call = call})

\* C11: a failure inside probe, compatibility check, build, test, metrics
\* gathering, analysis or publish ends the phase call at once with the exception
\* raised to its caller, a call raises only after such a failure (or a failed
\* rollback), and no collaborator is called again: discover calls the probe and
\* the publish at most once per service, every other phase call calls each of
\* its collaborators at most once.
C11_FailuresPropagateNoRetry ==
    \A w \in Workers :
        LET f == frame[w]
            n == Len(f.invoked)
        IN  /\ \A k \in 1..n :
                  (f.invoked[k].result = "raise" /\ f.invoked[k].call # "_rollback_integration")
                     => (k = n /\ f.pc = "done" /\ f.outcome = "raised")
            /\ f.outcome = "raised" => (n > 0 /\ f.invoked[n].result = "raise")
            /\ ~Discovering(w) =>
                  \A j, k \in 1..n : j # k => f.invoked[j].call # f.invoked[k].call
            /\ Discovering(w) =>
                  /\ Times(f, "_ping_service") = Len(f.responses)
                  /\ Len(f.responses) <= Len(f.arg.items)
                  /\ Times(f, "publish") <=
                        Cardinality({k \in 1..Len(f.responses) : f.responses[k] = "200"})

\* A monitor call has raised because the analysis raised, and an assess call
\* has raised because its publish raised.
C11_Witness ==
    /\ \E w \in Workers :
          Monitoring(w) /\ frame[w].outcome = "raised" /\ frame[w].healthy = "raise"
    /\ \E w \in Workers :
          Assessing(w) /\ frame[w].outcome = "raised" /\ frame[w].publish = "raise"

\* C12 as stated: every event on the discovery, assessment and implementation
\* exchanges carries the id of the IntegrationRequest it concerns.
C12_EveryEventCarriesCorrelationId ==
    \A e \in ExchangeSet : \A m \in Range(communicators[e]) :
        /\ "id" \in DOMAIN m.body
        /\ m.body.id \in RequestIds

C15_SuccessPrecededByFeasible ==
    \A m \in Range(communicators["implementation"]) :
        \E a \in Range(communicators["assessment"]) :
            a.routing_key = "feasible_integrations" /\ a.body = m.body

\* The places of the events about a request on an exchange.
EventsAbout(e, request) ==
    {k \in 1..Len(communicators[e]) : communicators[e][k].body = request}

\* C16 as stated: once a request has been found infeasible (an assess call ended
\* with the check false) or rolled back (an implement call ended after its
\* rollback), nothing moves it on: no further feasible or success event for it
\* is published.
C16_TerminalPhasesStay ==
    [][ \A v \in Workers :
          ( /\ Ended(v)
            /\ \/ Implementing(v) /\ frame[v].rollbacks = 1
               \/ Assessing(v) /\ frame[v].compatible = "false"
            /\ frame'[v] = frame[v] )
          => /\ EventsAbout("assessment", frame[v].arg)' = EventsAbout("assessment", frame[v].arg)
             /\ EventsAbout("implementation", frame[v].arg)' =
                   EventsAbout("implementation", frame[v].arg)
      ]_vars

\* C17: a monitor call that got no metrics returns at once without calling the
\* analyzer; one whose analyzer reported healthy returns after it; in both cases
\* the call does not invoke the compatibility check of assess, publishes nothing
\* and leaves the hub's records as they were.
C17_HealthyOrNoDataIsNoOp ==
    \A w \in Workers : Monitoring(w) =>
        LET f == frame[w]
            quiet == /\ Times(f, "_check_compatibility") = 0
                     /\ Times(f, "publish") = 0
                     /\ f.request = None
                     /\ f.sent = <<>>
                     /\ f.outcome = "returned"
                     /\ Phase(f.arg.str) = "none"
        IN  /\ f.metrics = EmptyDict =>
                  /\ quiet
                  /\ Times(f, "_analyze_metrics") = 0
                  /\ f.log = <<[level |-> "warning", msg |-> "No data available for monitoring."]>>
            /\ f.healthy = "true" =>
                  /\ quiet
                  /\ f.log = <<[level |-> "info", msg |-> "Integration is performing well."]>>

\* One monitor call has returned for lack of metrics and another after a healthy
\* analysis.
C17_Witness ==
    /\ \E w \in Workers :
          Monitoring(w) /\ frame[w].metrics = EmptyDict /\ frame[w].outcome = "returned"
    /\ \E w \in Workers :
          Monitoring(w) /\ frame[w].healthy = "true" /\ frame[w].outcome = "returned"

\* Every setup call of an exchange has returned.
SetUp(e) == setup[e] = Len(SetupCalls)

\* C18: a phase call is made, and a message is on an exchange, only when the hub
\* was constructed with connect, create_exchange and setup_queues done on every
\* exchange; when a setup call raised, construction failed at that call (the
\* exchanges after it were not touched), and no call and no message exists.
C18_NoPublishBeforeSetup ==
    /\ hub = "ready" => \A e \in ExchangeSet : SetUp(e)
    /\ \A e \in ExchangeSet : communicators[e] # <<>> => (hub = "ready" /\ SetUp(e))
    /\ (calls > 0 \/ \E w \in Workers : frame[w] # Frame0) => hub = "ready"
    /\ hub = "failed" =>
          /\ \E e \in ExchangeSet : ~SetUp(e)
          /\ \A j, k \in 1..Len(Exchanges) :
                (j < k /\ ~SetUp(Exchanges[j])) => setup[Exchanges[k]] = 0
          /\ calls = 0
          /\ \A w \in Workers : frame[w] = Frame0
          /\ \A e \in ExchangeSet : communicators[e] = <<>>
    /\ hub = "new" => \A e \in ExchangeSet : setup[e] = 0 /\ communicators[e] = <<>>

\* On a hub whose three exchanges are set up, a message has been published on
\* each exchange.
C18_Witness ==
    /\ hub = "ready"
    /\ \A e \in ExchangeSet : SetUp(e) /\ communicators[e] # <<>>

\* What the events of a phase call may be about: the request or id it was given,
\* or the service its loop stands at.
OwnBodies(f) ==
    IF f.op = "discover_services"
    THEN {[service |-> f.arg.items[k][1]] : k \in {f.i} \cap (1..Len(f.arg.items))}
    ELSE {f.arg, f.request}

\* C19: a step of one phase call changes no other call's locals and no record,
\* removes or alters no published event, and publishes at most one event, which
\* is about that call's own request (or service) and is counted in that call's
\* own events; so what is published for one id is decided by the calls on that
\* id alone, however the calls on another id are interleaved with them.
C19_CallsDoNotInterfere ==
    [][ \A w \in Workers : frame'[w] # frame[w] =>
          /\ \A v \in Workers \ {w} : frame'[v] = frame[v]
          /\ records' = records
          /\ \/ /\ communicators' = communicators
                /\ frame'[w].sent = frame[w].sent \/ frame'[w].sent = <<>>
             \/ \E e \in ExchangeSet : \E body \in OwnBodies(frame[w]) :
                   LET m == [exchange |-> e, routing_key |-> frame'[w].sent[Len(frame'[w].sent)].routing_key,
                             body |-> body]
                   IN  /\ communicators' = [communicators EXCEPT ![e] = Append(@, m)]
                       /\ frame'[w].sent = Append(frame[w].sent, m)
      ]_vars

\* Two implement calls on different ids are in flight together after one of
\* them has published: w1's success event for r1 is out while w2 stands before
\* its publish for r2.
C19_Witness ==
    \E w, v \in Workers :
        /\ w # v /\ calls = 2
        /\ Implementing(w) /\ frame[w].outcome = "returned" /\ Len(frame[w].sent) = 1
        /\ Implementing(v) /\ frame[v].pc = "implement_publish"
        /\ frame[w].arg.id # frame[v].arg.id
        /\ Len(communicators["implementation"]) = 1

\* C20: a discover call in which a probe or a publish raised has ended, raised,
\* at that service: it probed the services up to it and none after it, the
\* events it published for the reachable services before it are still on the
\* discovery exchange, and it published nothing for that service or a later one.
C20_DiscoverAbortsAtFailure ==
    \A w \in Workers :
        LET f == frame[w]
            n == Len(f.responses)
        IN  ( /\ Discovering(w)
              /\ \/ \E k \in 1..n : f.responses[k] = "raise"
                 \/ f.publish = "raise" )
            => /\ f.pc = "done" /\ f.outcome = "raised"
               /\ f.i = n /\ n >= 1
               /\ Times(f, "_ping_service") = n
               /\ Times(f, "publish") <= n
               /\ f.sent = ReachableEvents(f.arg.items, SubSeq(f.responses, 1, n - 1))
               /\ \A k \in 1..Len(f.sent) :
                     /\ f.sent[k] \in Range(communicators["discovery"])
                     /\ \E j \in 1..(n - 1) : f.sent[k].body.service = f.arg.items[j][1]

\* One discover call over two services raised at the publish of the first and
\* never probed the second; another published the first and raised at the
\* publish of the second.
C20_Witness ==
    /\ \E w \in Workers :
          /\ Discovering(w) /\ frame[w].outcome = "raised"
          /\ Len(frame[w].arg.items) = 2 /\ frame[w].i = 1
          /\ frame[w].publish = "raise" /\ frame[w].sent = <<>>
    /\ \E w \in Workers :
          /\ Discovering(w) /\ frame[w].outcome = "raised"
          /\ frame[w].responses = <<"200", "200">>
          /\ frame[w].publish = "raise" /\ Len(frame[w].sent) = 1
          /\ frame[w].sent[1] \in Range(communicators["discovery"])

====
